---- MODULE Spec2Model ----
(***************************************************************************)
(* QuickChat server: the presence registry (userSocketMap), the socket.io  *)
(* connection / disconnect handlers of server/server.js and the            *)
(* sendMessage controller that persists a message and pushes it to the     *)
(* receiver's socket.                                                      *)
(*                                                                         *)
(* Node runs every handler on one event loop: a handler runs to its next   *)
(* await without interleaving, so each action below is one such run.       *)
(***************************************************************************)
EXTENDS Naturals, Sequences, FiniteSets

\* Number of socket connections opened during a run (socket ids 1..MaxConns).
MaxConns == 2
\* Number of POST /api/messages/send/:id requests issued during a run.
MaxReqs == 1

\* Number of POST /api/auth/signup requests issued during a run.
MaxSignups == 2
\* Number of GET /api/messages/:id requests issued during a run.
MaxGets == 1

SocketIds == 1 .. MaxConns
ReqIds == 1 .. MaxReqs
SignupIds == 1 .. MaxSignups
GetIds == 1 .. MaxGets

\* userSocketMap[k] of a key that is not in the object: undefined.
NoSocket == 0

\* Users that exist in the database (the ids sendMessage can persist).
Users == {"u1", "u2"}

\* socket.handshake.query.userId when the client sent no userId.
NoUserId == "<absent>"

\* What a client can put in the handshake query: the id of a user, the
\* string "undefined", the empty string, or nothing.
HandshakeIds == Users \cup {"undefined", "", NoUserId}

VARIABLES
    sockets,        \* socket id -> [state, userId]: io's sockets and each handler's closure
    userSocketMap,  \* the object { userId: socketId }, as its entries in key order
    messages,       \* the Message collection, in creation order
    reqs,           \* request id -> position and locals of one sendMessage call
    emitted,        \* the events the latest run of socket.io code emitted, in order
    onlineUsers,    \* payload of the latest getOnlineUsers event (what clients show)
    registryOps,    \* the writes and deletes made on userSocketMap, in order
    accounts,       \* the User collection, in creation order
    signups,        \* signup id -> position and locals of one signup call
    reads           \* get id -> position and locals of one getMessages call

vars == <<sockets, userSocketMap, messages, reqs, emitted, onlineUsers, registryOps,
          accounts, signups, reads>>

----------------------------------------------------------------------------
\* JavaScript object semantics used by the handlers.

\* if (userId): undefined and "" are falsy, every other string is truthy.
Truthy(v) == v # NoUserId /\ v # ""

\* obj[k] converts k to a property key: undefined becomes "undefined".
ToPropertyKey(v) == IF v = NoUserId THEN "undefined" ELSE v

RECURSIVE IndexOf(_, _, _)
IndexOf(obj, k, i) ==
    IF i > Len(obj) THEN 0
    ELSE IF obj[i].key = k THEN i
    ELSE IndexOf(obj, k, i + 1)

HasKey(obj, k) == IndexOf(obj, k, 1) # 0

\* obj[k] as a read.
Get(obj, k) ==
    IF HasKey(obj, k) THEN obj[IndexOf(obj, k, 1)].value ELSE NoSocket

\* Mutant of Put: a key that is already there keeps its old value.
PutKeepFirst(obj, k, v) ==
    IF HasKey(obj, k) THEN obj ELSE Append(obj, [key |-> k, value |-> v])

\* obj[k] = v: an existing key keeps its place, a new key goes last.
Put(obj, k, v) ==
    IF HasKey(obj, k)
    THEN [obj EXCEPT ![IndexOf(obj, k, 1)] = [key |-> k, value |-> v]]
    ELSE Append(obj, [key |-> k, value |-> v])

\* delete obj[k].
Delete(obj, k) == SelectSeq(obj, LAMBDA e : e.key # k)

\* Mutant of ObjectKeys: the keys, latest first.
ObjectKeysLatestFirst(obj) == [i \in 1 .. Len(obj) |-> obj[Len(obj) + 1 - i].key]

\* Object.keys(obj): the keys in insertion order.
ObjectKeys(obj) == [i \in 1 .. Len(obj) |-> obj[i].key]

----------------------------------------------------------------------------
\* socket.io emits.

Connected(s) == {c \in SocketIds : s[c].state = "connected"}

NoMessage == [id |-> 0, senderId |-> "", receiverId |-> "", image |-> "", seen |-> FALSE]

\* io.emit("getOnlineUsers", Object.keys(userSocketMap)): to every connected socket.
EmitOnlineUsers(s, obj) ==
    [type |-> "getOnlineUsers", to |-> Connected(s),
     users |-> ObjectKeys(obj), message |-> NoMessage]

\* io.to(socketId).emit("newMessage", newMessage): to the room of that socket id.
EmitNewMessage(sid, m) ==
    [type |-> "newMessage", to |-> {sid}, users |-> <<>>, message |-> m]

----------------------------------------------------------------------------
\* A sendMessage call that has not started.
NoCall == [pc |-> "idle", senderId |-> "", receiverId |-> "", image |-> FALSE,
           imageUrl |-> "", newMessage |-> NoMessage, res |-> "none"]

\* User.findOne({ email }) when no document matches: null.
NoUser == [id |-> 0, email |-> ""]

\* A signup call that has not started.
NoSignup == [pc |-> "idle", email |-> "", user |-> NoUser, newUser |-> NoUser,
             success |-> FALSE, message |-> "", token |-> 0]

\* A getMessages call that has not started.
NoRead == [pc |-> "idle", myId |-> "", selectedUserId |-> "", found |-> <<>>,
           res |-> "none"]

Init ==
    /\ sockets = [c \in SocketIds |-> [state |-> "none", userId |-> NoUserId]]
    /\ userSocketMap = <<>>
    /\ messages = <<>>
    /\ reqs = [r \in ReqIds |-> NoCall]
    /\ emitted = <<>>
    /\ onlineUsers = <<>>
    /\ registryOps = <<>>
    /\ accounts = <<>>
    /\ signups = [g \in SignupIds |-> NoSignup]
    /\ reads = [g \in GetIds |-> NoRead]

\* Mutant of Register: the write without the `if (userId)` test.
RegisterUnguarded(obj, userId, sid) == Put(obj, ToPropertyKey(userId), sid)

\* The registry after `if (userId) userSocketMap[userId] = socket.id`.
Register(obj, userId, sid) ==
    IF Truthy(userId) THEN Put(obj, ToPropertyKey(userId), sid) ELSE obj

\* Mutant of Unregister: the disconnect handler leaves the registry alone.
UnregisterSkipped(obj, userId) == obj

\* The registry after `delete userSocketMap[userId]`.
Unregister(obj, userId) == Delete(obj, ToPropertyKey(userId))

\* Mutant of Connect: the broadcast is emitted before the registry write.
ConnectBroadcastFirst(c, userId) ==
    /\ sockets[c].state = "none"
    /\ \A d \in SocketIds : d < c => sockets[d].state # "none"
    /\ LET s2 == [sockets EXCEPT ![c] = [state |-> "connected", userId |-> userId]]
       IN /\ sockets' = s2
          /\ emitted' = <<EmitOnlineUsers(s2, userSocketMap)>>
          /\ onlineUsers' = ObjectKeys(userSocketMap)
          /\ userSocketMap' = Register(userSocketMap, userId, c)
          /\ registryOps' =
                IF Truthy(userId)
                THEN Append(registryOps,
                            [op |-> "register", key |-> ToPropertyKey(userId), sid |-> c])
                ELSE registryOps
    /\ UNCHANGED <<messages, reqs>>
    /\ UNCHANGED <<accounts, signups, reads>>

\* Mutant of Connect: the stored messages addressed to the user are pushed
\* to the new socket after the broadcast.
ConnectFlushingStored(c, userId) ==
    /\ sockets[c].state = "none"
    /\ \A d \in SocketIds : d < c => sockets[d].state # "none"
    /\ LET s2 == [sockets EXCEPT ![c] = [state |-> "connected", userId |-> userId]]
           m2 == Register(userSocketMap, userId, c)
           stored == SelectSeq(messages, LAMBDA m : m.receiverId = userId)
       IN /\ sockets' = s2
          /\ userSocketMap' = m2
          /\ emitted' = <<EmitOnlineUsers(s2, m2)>>
                            \o [i \in 1 .. Len(stored) |-> EmitNewMessage(c, stored[i])]
          /\ onlineUsers' = ObjectKeys(m2)
          /\ registryOps' =
                IF Truthy(userId)
                THEN Append(registryOps,
                            [op |-> "register", key |-> ToPropertyKey(userId), sid |-> c])
                ELSE registryOps
    /\ UNCHANGED <<messages, reqs>>
    /\ UNCHANGED <<accounts, signups, reads>>

\* io.on("connection", socket => ...): socket c, fresh id, joins and the handler runs.
Connect(c, userId) ==
    /\ sockets[c].state = "none"
    /\ \A d \in SocketIds : d < c => sockets[d].state # "none"
    /\ LET s2 == [sockets EXCEPT ![c] = [state |-> "connected", userId |-> userId]]
           m2 == Register(userSocketMap, userId, c)
       IN /\ sockets' = s2
          /\ userSocketMap' = m2
          /\ emitted' = <<EmitOnlineUsers(s2, m2)>>
          /\ onlineUsers' = ObjectKeys(m2)
          /\ registryOps' =
                IF Truthy(userId)
                THEN Append(registryOps,
                            [op |-> "register", key |-> ToPropertyKey(userId), sid |-> c])
                ELSE registryOps
    /\ UNCHANGED <<messages, reqs>>
    /\ UNCHANGED <<accounts, signups, reads>>

\* Mutant of Disconnect: the broadcast is emitted before the delete.
DisconnectBroadcastFirst(c) ==
    /\ sockets[c].state = "connected"
    /\ LET s2 == [sockets EXCEPT ![c].state = "disconnected"]
       IN /\ sockets' = s2
          /\ emitted' = <<EmitOnlineUsers(s2, userSocketMap)>>
          /\ onlineUsers' = ObjectKeys(userSocketMap)
          /\ userSocketMap' = Delete(userSocketMap, ToPropertyKey(sockets[c].userId))
          /\ registryOps' =
                Append(registryOps,
                       [op |-> "unregister", key |-> ToPropertyKey(sockets[c].userId),
                        sid |-> c])
    /\ UNCHANGED <<messages, reqs>>
    /\ UNCHANGED <<accounts, signups, reads>>

\* Mutant of Disconnect: the handler runs for every disconnect event of a
\* joined socket, a repeated one included.
DisconnectRepeated(c) ==
    /\ sockets[c].state # "none"
    /\ LET s2 == [sockets EXCEPT ![c].state = "disconnected"]
           m2 == Unregister(userSocketMap, sockets[c].userId)
       IN /\ sockets' = s2
          /\ userSocketMap' = m2
          /\ emitted' = <<EmitOnlineUsers(s2, m2)>>
          /\ onlineUsers' = ObjectKeys(m2)
          /\ registryOps' =
                Append(registryOps,
                       [op |-> "unregister", key |-> ToPropertyKey(sockets[c].userId),
                        sid |-> c])
    /\ UNCHANGED <<messages, reqs>>
    /\ UNCHANGED <<accounts, signups, reads>>

\* Mutant of Disconnect: the entry is deleted and nothing is broadcast.
DisconnectSilent(c) ==
    /\ sockets[c].state = "connected"
    /\ sockets' = [sockets EXCEPT ![c].state = "disconnected"]
    /\ userSocketMap' = Unregister(userSocketMap, sockets[c].userId)
    /\ emitted' = <<>>
    /\ registryOps' =
          Append(registryOps,
                 [op |-> "unregister", key |-> ToPropertyKey(sockets[c].userId),
                  sid |-> c])
    /\ UNCHANGED <<messages, reqs, onlineUsers>>
    /\ UNCHANGED <<accounts, signups, reads>>

\* socket.on("disconnect", ...): socket c has left, its handler runs.
Disconnect(c) ==
    /\ sockets[c].state = "connected"
    /\ LET s2 == [sockets EXCEPT ![c].state = "disconnected"]
           m2 == Unregister(userSocketMap, sockets[c].userId)
       IN /\ sockets' = s2
          /\ userSocketMap' = m2
          /\ emitted' = <<EmitOnlineUsers(s2, m2)>>
          /\ onlineUsers' = ObjectKeys(m2)
          /\ registryOps' =
                Append(registryOps,
                       [op |-> "unregister", key |-> ToPropertyKey(sockets[c].userId),
                        sid |-> c])
    /\ UNCHANGED <<messages, reqs>>
    /\ UNCHANGED <<accounts, signups, reads>>

----------------------------------------------------------------------------
\* sendMessage(req, res), one action per run between awaits.

\* The user protectRoute put in req.user.
Sender == "u1"

\* Mutant of SendMessage: the push is made first, with the document not yet saved.
SendMessagePushFirst(r, receiverId, image) ==
    /\ reqs[r].pc = "idle"
    /\ \A q \in ReqIds : q < r => reqs[q].pc # "idle"
    /\ reqs' = [reqs EXCEPT ![r] =
                  [@ EXCEPT !.pc = IF image THEN "upload" ELSE "create",
                            !.senderId = Sender, !.receiverId = receiverId,
                            !.image = image]]
    /\ emitted' =
          IF Get(userSocketMap, receiverId) # NoSocket
          THEN <<EmitNewMessage(Get(userSocketMap, receiverId),
                                [id |-> Len(messages) + 1, senderId |-> Sender,
                                 receiverId |-> receiverId, image |-> "",
                                 seen |-> FALSE])>>
          ELSE <<>>
    /\ UNCHANGED <<sockets, userSocketMap, messages, onlineUsers, registryOps>>
    /\ UNCHANGED <<accounts, signups, reads>>

\* The call up to its first await: the upload when the body has an image,
\* Message.create otherwise.
SendMessage(r, receiverId, image) ==
    /\ reqs[r].pc = "idle"
    /\ \A q \in ReqIds : q < r => reqs[q].pc # "idle"
    /\ reqs' = [reqs EXCEPT ![r] =
                  [@ EXCEPT !.pc = IF image THEN "upload" ELSE "create",
                            !.senderId = Sender, !.receiverId = receiverId,
                            !.image = image]]
    /\ UNCHANGED <<sockets, userSocketMap, messages, emitted, onlineUsers, registryOps>>
    /\ UNCHANGED <<accounts, signups, reads>>

\* cloudinary.uploader.upload resolves: imageUrl = uploadResponse.secure_url,
\* and the call goes on to Message.create.
UploadResolved(r) ==
    /\ reqs[r].pc = "upload"
    /\ reqs' = [reqs EXCEPT ![r] = [@ EXCEPT !.pc = "create", !.imageUrl = "url"]]
    /\ UNCHANGED <<sockets, userSocketMap, messages, emitted, onlineUsers, registryOps>>
    /\ UNCHANGED <<accounts, signups, reads>>

\* catch (error): res.json({ success: false, message }); the call returns.
Catch(q) == [q EXCEPT !.pc = "done", !.res = "failure"]

\* cloudinary.uploader.upload rejects.
UploadRejected(r) ==
    /\ reqs[r].pc = "upload"
    /\ reqs' = [reqs EXCEPT ![r] = Catch(@)]
    /\ UNCHANGED <<sockets, userSocketMap, messages, emitted, onlineUsers, registryOps>>
    /\ UNCHANGED <<accounts, signups, reads>>

\* The document Message.create({ senderId, receiverId, text, image }) stores.
NewMessage(q, id) ==
    [id |-> id, senderId |-> q.senderId, receiverId |-> q.receiverId,
     image |-> q.imageUrl, seen |-> FALSE]

\* The database stores the document; the awaiting call has not resumed yet.
CreatePersisted(r) ==
    /\ reqs[r].pc = "create"
    /\ LET m == NewMessage(reqs[r], Len(messages) + 1)
       IN /\ messages' = Append(messages, m)
          /\ reqs' = [reqs EXCEPT ![r] = [@ EXCEPT !.pc = "created", !.newMessage = m]]
    /\ UNCHANGED <<sockets, userSocketMap, emitted, onlineUsers, registryOps>>
    /\ UNCHANGED <<accounts, signups, reads>>

\* Message.create rejects: nothing is stored.
CreateRejected(r) ==
    /\ reqs[r].pc = "create"
    /\ reqs' = [reqs EXCEPT ![r] = Catch(@)]
    /\ UNCHANGED <<sockets, userSocketMap, messages, emitted, onlineUsers, registryOps>>
    /\ UNCHANGED <<accounts, signups, reads>>

\* Mutant of Push: io.emit, to every connected socket.
PushToAll(obj, q) ==
    IF Get(obj, ToPropertyKey(q.receiverId)) # NoSocket
    THEN <<[type |-> "newMessage", to |-> Connected(sockets), users |-> <<>>,
            message |-> q.newMessage]>>
    ELSE <<>>

\* Mutant of Push: the emit without the `if (receiverSocketId)` test.
PushUnguarded(obj, q) ==
    <<EmitNewMessage(Get(obj, ToPropertyKey(q.receiverId)), q.newMessage)>>

\* The socket id of the latest write of key k, whatever was deleted since.
RECURSIVE LatestWritten(_, _, _)
LatestWritten(ops, k, i) ==
    IF i = 0 THEN NoSocket
    ELSE IF ops[i].key = k /\ ops[i].op = "register" THEN ops[i].sid
    ELSE LatestWritten(ops, k, i - 1)

\* Mutant of Push: the lookup does not see the deletes of the disconnect handler.
PushIgnoringDeletes(obj, q) ==
    LET receiverSocketId ==
            LatestWritten(registryOps, ToPropertyKey(q.receiverId), Len(registryOps))
    IN IF receiverSocketId # NoSocket
       THEN <<EmitNewMessage(receiverSocketId, q.newMessage)>>
       ELSE <<>>

\* const receiverSocketId = userSocketMap[receiverId];
\* if (receiverSocketId) io.to(receiverSocketId).emit("newMessage", newMessage);
Push(obj, q) ==
    LET receiverSocketId == Get(obj, ToPropertyKey(q.receiverId))
    IN IF receiverSocketId # NoSocket
       THEN <<EmitNewMessage(receiverSocketId, q.newMessage)>>
       ELSE <<>>

\* res.json({ success: true, newMessage }); the call returns.
Respond(q) == [q EXCEPT !.pc = "done", !.res = "success"]

\* Mutant of Dispatch: a message that could not be pushed is answered as a failure.
DispatchSurfacingDelivery(r) ==
    /\ reqs[r].pc = "created"
    /\ emitted' = Push(userSocketMap, reqs[r])
    /\ reqs' = [reqs EXCEPT ![r] =
                  IF Push(userSocketMap, reqs[r]) = <<>> THEN Catch(@) ELSE Respond(@)]
    /\ UNCHANGED <<sockets, userSocketMap, messages, onlineUsers, registryOps>>
    /\ UNCHANGED <<accounts, signups, reads>>

\* The call resumes after Message.create: lookup, push, response, in one run.
Dispatch(r) ==
    /\ reqs[r].pc = "created"
    /\ emitted' = Push(userSocketMap, reqs[r])
    /\ reqs' = [reqs EXCEPT ![r] = Respond(@)]
    /\ UNCHANGED <<sockets, userSocketMap, messages, onlineUsers, registryOps>>
    /\ UNCHANGED <<accounts, signups, reads>>

Next ==
    \/ \E c \in SocketIds, u \in HandshakeIds : Connect(c, u)
    \/ \E c \in SocketIds : Disconnect(c)
    \/ \E r \in ReqIds, t \in Users, i \in BOOLEAN : SendMessage(r, t, i)
    \/ \E r \in ReqIds : UploadResolved(r)
    \/ \E r \in ReqIds : UploadRejected(r)
    \/ \E r \in ReqIds : CreatePersisted(r)
    \/ \E r \in ReqIds : CreateRejected(r)
    \/ \E r \in ReqIds : Dispatch(r)

Spec == Init /\ [][Next]_vars

----------------------------------------------------------------------------
\* The server from the moment a sendMessage call is awaiting, with nobody
\* connected yet: every connect and disconnect falls within the call's awaits.

AwaitInit ==
    /\ sockets = [c \in SocketIds |-> [state |-> "none", userId |-> NoUserId]]
    /\ userSocketMap = <<>>
    /\ messages = <<>>
    /\ \E t \in Users, i \in BOOLEAN :
          reqs = [r \in ReqIds |->
                    IF r = 1
                    THEN [NoCall EXCEPT !.pc = IF i THEN "upload" ELSE "create",
                                        !.senderId = Sender, !.receiverId = t,
                                        !.image = i]
                    ELSE NoCall]
    /\ emitted = <<>>
    /\ onlineUsers = <<>>
    /\ registryOps = <<>>
    /\ accounts = <<>>
    /\ signups = [g \in SignupIds |-> NoSignup]
    /\ reads = [g \in GetIds |-> NoRead]

AwaitNext ==
    \/ \E c \in SocketIds, u \in HandshakeIds : Connect(c, u)
    \/ \E c \in SocketIds : Disconnect(c)
    \/ \E r \in ReqIds : UploadResolved(r)
    \/ \E r \in ReqIds : UploadRejected(r)
    \/ \E r \in ReqIds : CreatePersisted(r)
    \/ \E r \in ReqIds : CreateRejected(r)
    \/ \E r \in ReqIds : Dispatch(r)

AwaitSpec == AwaitInit /\ [][AwaitNext]_vars

----------------------------------------------------------------------------
\* signup(req, res), one action per run between awaits.

\* The emails clients sign up with.
Emails == {"a@x.io", "b@x.io"}

\* User.findOne({ email }) on the collection: the first match, or null.
FindOne(coll, email) ==
    IF \E i \in DOMAIN coll : coll[i].email = email
    THEN coll[CHOOSE i \in DOMAIN coll :
                 /\ coll[i].email = email
                 /\ \A j \in DOMAIN coll : coll[j].email = email => i <= j]
    ELSE NoUser

\* return res.json({ success: false, message }).
SignupFails(q, message) == [q EXCEPT !.pc = "done", !.success = FALSE, !.message = message]

\* The call up to its first await: the required-fields test, then User.findOne.
\* complete: fullName, email, password and bio are all in the body.
Signup(g, email, complete) ==
    /\ signups[g].pc = "idle"
    /\ \A h \in SignupIds : h < g => signups[h].pc # "idle"
    /\ signups' = [signups EXCEPT ![g] =
                     IF complete
                     THEN [@ EXCEPT !.pc = "findOne", !.email = email]
                     ELSE SignupFails([@ EXCEPT !.email = email], "Missing Details")]
    /\ UNCHANGED <<sockets, userSocketMap, messages, reqs, emitted, onlineUsers,
                   registryOps, accounts, reads>>

\* User.findOne resolves: an existing user ends the call, none goes on to bcrypt.genSalt.
FindOneResolved(g) ==
    /\ signups[g].pc = "findOne"
    /\ LET user == FindOne(accounts, signups[g].email)
       IN signups' = [signups EXCEPT ![g] =
                        IF user # NoUser
                        THEN SignupFails([@ EXCEPT !.user = user], "Account already exists")
                        ELSE [@ EXCEPT !.pc = "genSalt"]]
    /\ UNCHANGED <<sockets, userSocketMap, messages, reqs, emitted, onlineUsers,
                   registryOps, accounts, reads>>

\* User.findOne rejects: catch (error), res.json({ success: false, message: error.message }).
FindOneRejected(g) ==
    /\ signups[g].pc = "findOne"
    /\ signups' = [signups EXCEPT ![g] = SignupFails(@, "error")]
    /\ UNCHANGED <<sockets, userSocketMap, messages, reqs, emitted, onlineUsers,
                   registryOps, accounts, reads>>

\* bcrypt.genSalt(10) resolves.
GenSaltResolved(g) ==
    /\ signups[g].pc = "genSalt"
    /\ signups' = [signups EXCEPT ![g] = [@ EXCEPT !.pc = "hash"]]
    /\ UNCHANGED <<sockets, userSocketMap, messages, reqs, emitted, onlineUsers,
                   registryOps, accounts, reads>>

\* bcrypt.hash(password, salt) resolves; the call goes on to User.create.
HashResolved(g) ==
    /\ signups[g].pc = "hash"
    /\ signups' = [signups EXCEPT ![g] = [@ EXCEPT !.pc = "create"]]
    /\ UNCHANGED <<sockets, userSocketMap, messages, reqs, emitted, onlineUsers,
                   registryOps, accounts, reads>>

\* The collection after User.create({ fullName, email, password, bio }).
UserCreate(coll, email) == Append(coll, [id |-> Len(coll) + 1, email |-> email])

\* The database stores the user; the awaiting call has not resumed yet.
UserCreated(g) ==
    /\ signups[g].pc = "create"
    /\ accounts' = UserCreate(accounts, signups[g].email)
    /\ signups' = [signups EXCEPT ![g] =
                     [@ EXCEPT !.pc = "created",
                               !.newUser = accounts'[Len(accounts')]]]
    /\ UNCHANGED <<sockets, userSocketMap, messages, reqs, emitted, onlineUsers,
                   registryOps, reads>>

\* User.create rejects: catch (error).
UserCreateRejected(g) ==
    /\ signups[g].pc = "create"
    /\ signups' = [signups EXCEPT ![g] = SignupFails(@, "error")]
    /\ UNCHANGED <<sockets, userSocketMap, messages, reqs, emitted, onlineUsers,
                   registryOps, accounts, reads>>

\* The call resumes: generateToken(newUser._id) and the success response.
SignupResponds(g) ==
    /\ signups[g].pc = "created"
    /\ signups' = [signups EXCEPT ![g] =
                     [@ EXCEPT !.pc = "done", !.success = TRUE,
                               !.token = signups[g].newUser.id,
                               !.message = "Account created successfully"]]
    /\ UNCHANGED <<sockets, userSocketMap, messages, reqs, emitted, onlineUsers,
                   registryOps, accounts, reads>>

SignupNext ==
    \/ \E g \in SignupIds, e \in Emails, c \in BOOLEAN : Signup(g, e, c)
    \/ \E g \in SignupIds : FindOneResolved(g)
    \/ \E g \in SignupIds : FindOneRejected(g)
    \/ \E g \in SignupIds : GenSaltResolved(g)
    \/ \E g \in SignupIds : HashResolved(g)
    \/ \E g \in SignupIds : UserCreated(g)
    \/ \E g \in SignupIds : UserCreateRejected(g)
    \/ \E g \in SignupIds : SignupResponds(g)

SignupSpec == Init /\ [][SignupNext]_vars

----------------------------------------------------------------------------
\* getMessages(req, res), one action per run between awaits, beside sendMessage.

\* Message.find({ $or: [{ senderId: a, receiverId: b }, { senderId: b, receiverId: a }] }).
Find(coll, a, b) ==
    SelectSeq(coll, LAMBDA m : \/ m.senderId = a /\ m.receiverId = b
                               \/ m.senderId = b /\ m.receiverId = a)

\* The collection after Message.updateMany({ senderId, receiverId }, { seen: true }).
UpdateMany(coll, senderId, receiverId) ==
    [i \in DOMAIN coll |->
        IF coll[i].senderId = senderId /\ coll[i].receiverId = receiverId
        THEN [coll[i] EXCEPT !.seen = TRUE]
        ELSE coll[i]]

\* The call up to its first await, Message.find.
GetMessages(g, myId, selectedUserId) ==
    /\ reads[g].pc = "idle"
    /\ \A h \in GetIds : h < g => reads[h].pc # "idle"
    /\ reads' = [reads EXCEPT ![g] =
                   [@ EXCEPT !.pc = "find", !.myId = myId,
                             !.selectedUserId = selectedUserId]]
    /\ UNCHANGED <<sockets, userSocketMap, messages, reqs, emitted, onlineUsers,
                   registryOps, accounts, signups>>

\* Message.find resolves with the conversation as stored now; the call goes
\* on to Message.updateMany.
FindResolved(g) ==
    /\ reads[g].pc = "find"
    /\ reads' = [reads EXCEPT ![g] =
                   [@ EXCEPT !.pc = "updateMany",
                             !.found = Find(messages, reads[g].myId, reads[g].selectedUserId)]]
    /\ UNCHANGED <<sockets, userSocketMap, messages, reqs, emitted, onlineUsers,
                   registryOps, accounts, signups>>

\* catch (error): res.json({ success: false, message }); no list is returned.
GetMessagesFails(q) == [q EXCEPT !.pc = "done", !.res = "failure", !.found = <<>>]

\* Message.find rejects.
FindRejected(g) ==
    /\ reads[g].pc = "find"
    /\ reads' = [reads EXCEPT ![g] = GetMessagesFails(@)]
    /\ UNCHANGED <<sockets, userSocketMap, messages, reqs, emitted, onlineUsers,
                   registryOps, accounts, signups>>

\* The database applies the update; the awaiting call has not resumed yet.
UpdateManyApplied(g) ==
    /\ reads[g].pc = "updateMany"
    /\ messages' = UpdateMany(messages, reads[g].selectedUserId, reads[g].myId)
    /\ reads' = [reads EXCEPT ![g] = [@ EXCEPT !.pc = "updated"]]
    /\ UNCHANGED <<sockets, userSocketMap, reqs, emitted, onlineUsers,
                   registryOps, accounts, signups>>

\* Message.updateMany rejects: nothing is marked.
UpdateManyRejected(g) ==
    /\ reads[g].pc = "updateMany"
    /\ reads' = [reads EXCEPT ![g] = GetMessagesFails(@)]
    /\ UNCHANGED <<sockets, userSocketMap, messages, reqs, emitted, onlineUsers,
                   registryOps, accounts, signups>>

\* The call resumes: res.json({ success: true, messages }).
GetMessagesResponds(g) ==
    /\ reads[g].pc = "updated"
    /\ reads' = [reads EXCEPT ![g] = [@ EXCEPT !.pc = "done", !.res = "success"]]
    /\ UNCHANGED <<sockets, userSocketMap, messages, reqs, emitted, onlineUsers,
                   registryOps, accounts, signups>>

HistoryNext ==
    \/ \E g \in GetIds, a, b \in Users : GetMessages(g, a, b)
    \/ \E g \in GetIds : FindResolved(g)
    \/ \E g \in GetIds : FindRejected(g)
    \/ \E g \in GetIds : UpdateManyApplied(g)
    \/ \E g \in GetIds : UpdateManyRejected(g)
    \/ \E g \in GetIds : GetMessagesResponds(g)
    \/ \E r \in ReqIds, t \in Users, i \in BOOLEAN : SendMessage(r, t, i)
    \/ \E r \in ReqIds : UploadResolved(r)
    \/ \E r \in ReqIds : UploadRejected(r)
    \/ \E r \in ReqIds : CreatePersisted(r)
    \/ \E r \in ReqIds : CreateRejected(r)
    \/ \E r \in ReqIds : Dispatch(r)

HistorySpec == Init /\ [][HistoryNext]_vars

----------------------------------------------------------------------------
\* The same server when two sendMessage calls are made.

ScenarioReqIds == {1, 2}

ScenarioInit ==
    /\ sockets = [c \in SocketIds |-> [state |-> "none", userId |-> NoUserId]]
    /\ userSocketMap = <<>>
    /\ messages = <<>>
    /\ reqs = [r \in ScenarioReqIds |-> NoCall]
    /\ emitted = <<>>
    /\ onlineUsers = <<>>
    /\ registryOps = <<>>
    /\ accounts = <<>>
    /\ signups = [g \in SignupIds |-> NoSignup]
    /\ reads = [g \in GetIds |-> NoRead]

ScenarioNext ==
    \/ \E c \in SocketIds, u \in HandshakeIds : Connect(c, u)
    \/ \E c \in SocketIds : Disconnect(c)
    \/ \E r \in ScenarioReqIds, t \in Users, i \in BOOLEAN : SendMessage(r, t, i)
    \/ \E r \in ScenarioReqIds : UploadResolved(r)
    \/ \E r \in ScenarioReqIds : UploadRejected(r)
    \/ \E r \in ScenarioReqIds : CreatePersisted(r)
    \/ \E r \in ScenarioReqIds : CreateRejected(r)
    \/ \E r \in ScenarioReqIds : Dispatch(r)

ScenarioSpec == ScenarioInit /\ [][ScenarioNext]_vars

----------------------------------------------------------------------------
\* Vocabulary of the properties.

Range(seq) == {seq[i] : i \in DOMAIN seq}

\* The property keys the handlers can use.
Keys == {ToPropertyKey(u) : u \in HandshakeIds}

\* The socket id of the latest write of key k that no delete of k followed.
RECURSIVE LatestRegistered(_, _, _)
LatestRegistered(ops, k, i) ==
    IF i = 0 THEN NoSocket
    ELSE IF ops[i].key # k THEN LatestRegistered(ops, k, i - 1)
    ELSE IF ops[i].op = "register" THEN ops[i].sid
    ELSE NoSocket

\* This step is the connection handler of socket c.
ConnectStep(c) == sockets[c].state = "none" /\ sockets'[c].state = "connected"

\* This step is the disconnect handler of socket c.
DisconnectStep(c) == sockets[c].state = "connected" /\ sockets'[c].state = "disconnected"

\* This step is the run of sendMessage r that follows Message.create.
DispatchStep(r) == reqs[r].pc = "created" /\ reqs'[r].pc = "done"

\* Message.create stored the message of call r.
Persisted(r) == reqs[r].newMessage \in Range(messages)

----------------------------------------------------------------------------
\* C1: for every key, the registry holds the socket id of the latest write of
\* that key that no delete of it followed, and nothing otherwise; no key has
\* two entries.
C1_LookupIsLatestRegister ==
    /\ \A k \in Keys :
          Get(userSocketMap, k) = LatestRegistered(registryOps, k, Len(registryOps))
    /\ \A i, j \in DOMAIN userSocketMap :
          userSocketMap[i].key = userSocketMap[j].key => i = j
    /\ \A i \in DOMAIN userSocketMap : userSocketMap[i].value # NoSocket

\* The same user registered on two sockets in a row: one entry, the later socket.
C1_Witness ==
    \E i \in DOMAIN registryOps :
        /\ i > 1
        /\ registryOps[i].op = "register" /\ registryOps[i - 1].op = "register"
        /\ registryOps[i].key = registryOps[i - 1].key
        /\ registryOps[i].sid # registryOps[i - 1].sid
        /\ i = Len(registryOps)
        /\ Len(userSocketMap) = 1
        /\ Get(userSocketMap, registryOps[i].key) = registryOps[i].sid

\* C2: the disconnect of a socket whose user is registered under another
\* socket id leaves that entry in place and the user in the online list.
C2_StaleDisconnectKeepsEntry ==
    [][\A c \in SocketIds :
          LET k == ToPropertyKey(sockets[c].userId)
          IN (/\ DisconnectStep(c)
              /\ Truthy(sockets[c].userId)
              /\ Get(userSocketMap, k) # NoSocket
              /\ Get(userSocketMap, k) # c)
             => /\ Get(userSocketMap', k) = Get(userSocketMap, k)
                /\ k \in Range(onlineUsers')]_vars

\* C3: the dispatch of a persisted message whose receiver is registered emits
\* one newMessage event, with that message, to the registered socket id only.
C3_DispatchToRegistered ==
    [][\A r \in ReqIds :
          LET sid == Get(userSocketMap, reqs[r].receiverId)
          IN (DispatchStep(r) /\ sid # NoSocket)
             => /\ Persisted(r)
                /\ Len(emitted') = 1
                /\ emitted'[1].type = "newMessage"
                /\ emitted'[1].message = reqs[r].newMessage
                /\ emitted'[1].to = {sid}]_vars

\* A message was pushed to its receiver's socket while another socket was connected.
C3_Witness ==
    \E r \in ReqIds :
        /\ reqs[r].pc = "done"
        /\ Len(emitted) = 1
        /\ emitted[1].type = "newMessage"
        /\ emitted[1].message = reqs[r].newMessage
        /\ emitted[1].to = {Get(userSocketMap, reqs[r].receiverId)}
        /\ Connected(sockets) \ emitted[1].to # {}

\* C4: the dispatch of a persisted message whose receiver has no entry emits
\* nothing, leaves the registry as it was and answers success.
C4_DispatchToUnregistered ==
    [][\A r \in ReqIds :
          (DispatchStep(r) /\ Get(userSocketMap, reqs[r].receiverId) = NoSocket)
             => /\ Persisted(r)
                /\ emitted' = <<>>
                /\ userSocketMap' = userSocketMap
                /\ reqs'[r].res = "success"]_vars

\* A call answered success without a push while some other user was registered.
C4_Witness ==
    \E r \in ReqIds :
        /\ reqs[r].pc = "done" /\ reqs[r].res = "success"
        /\ emitted = <<>>
        /\ Get(userSocketMap, reqs[r].receiverId) = NoSocket
        /\ Len(userSocketMap) > 0

C6_PushOnlyAfterPersist ==
    [][/\ \A i \in DOMAIN emitted' :
             emitted'[i].type = "newMessage" => emitted'[i].message \in Range(messages)
       /\ \A r \in ReqIds :
             (reqs[r].pc \in {"upload", "create"} /\ reqs'[r].pc = "done")
                => /\ reqs'[r].res = "failure"
                   /\ emitted' = emitted
                   /\ messages' = messages]_vars

\* A call failed while its receiver was registered: nothing stored, nothing pushed.
C6_Witness ==
    \E r \in ReqIds :
        /\ reqs[r].pc = "done" /\ reqs[r].res = "failure"
        /\ Get(userSocketMap, reqs[r].receiverId) # NoSocket
        /\ messages = <<>>
        /\ \A i \in DOMAIN emitted : emitted[i].type # "newMessage"

\* C7: the connection handler of a socket that carries a user id stores
\* userId -> socket id and then emits getOnlineUsers to every connected
\* socket, with that user id in the payload.
C7_ConnectRegistersThenBroadcasts ==
    [][\A c \in SocketIds :
          (ConnectStep(c) /\ Truthy(sockets'[c].userId))
             => /\ Get(userSocketMap', ToPropertyKey(sockets'[c].userId)) = c
                /\ Len(emitted') = 1
                /\ emitted'[1].type = "getOnlineUsers"
                /\ emitted'[1].to = Connected(sockets')
                /\ c \in emitted'[1].to
                /\ ToPropertyKey(sockets'[c].userId) \in Range(emitted'[1].users)]_vars

\* A second socket connected with a user id and the broadcast went to both sockets.
C7_Witness ==
    \E c \in SocketIds :
        /\ sockets[c].state = "connected" /\ Truthy(sockets[c].userId)
        /\ Get(userSocketMap, sockets[c].userId) = c
        /\ Len(emitted) = 1
        /\ emitted[1].type = "getOnlineUsers"
        /\ Cardinality(emitted[1].to) = 2
        /\ \A d \in emitted[1].to : d <= c

\* C8: every getOnlineUsers event carries the keys of the registry as they are
\* when it is emitted, every step that changes the keys emits one to all
\* connected sockets, and the latest payload is the current key list.
C8_BroadcastIsSnapshot ==
    [][/\ \A i \in DOMAIN emitted' :
             emitted'[i].type = "getOnlineUsers"
                => emitted'[i].users = ObjectKeys(userSocketMap')
       /\ ObjectKeys(userSocketMap') # ObjectKeys(userSocketMap)
             => /\ Len(emitted') = 1
                /\ emitted'[1].type = "getOnlineUsers"
                /\ emitted'[1].to = Connected(sockets')
       /\ onlineUsers' = ObjectKeys(userSocketMap')]_vars

\* register u1, register u2, unregister u1: the list and the broadcast are u2.
C8_Witness ==
    /\ Len(registryOps) = 3
    /\ registryOps[1] = [op |-> "register", key |-> "u1", sid |-> 1]
    /\ registryOps[2] = [op |-> "register", key |-> "u2", sid |-> 2]
    /\ registryOps[3] = [op |-> "unregister", key |-> "u1", sid |-> 1]
    /\ onlineUsers = <<"u2">>
    /\ ObjectKeys(userSocketMap) = <<"u2">>
    /\ Len(emitted) = 1 /\ emitted[1].users = <<"u2">>

\* C9: the connection handler of a socket that carries no user id, or an
\* empty one, accepts the socket and leaves the registry as it was.
C9_NoIdentityNoRegistration ==
    [][\A c \in SocketIds :
          (ConnectStep(c) /\ ~Truthy(sockets'[c].userId))
             => userSocketMap' = userSocketMap]_vars

\* A socket without a user id is connected next to a registered user.
C9_Witness ==
    \E c, d \in SocketIds :
        /\ sockets[c].state = "connected" /\ ~Truthy(sockets[c].userId)
        /\ d < c
        /\ sockets[d].state = "connected"
        /\ Get(userSocketMap, ToPropertyKey(sockets[d].userId)) = d
        /\ Len(userSocketMap) = 1

\* C10: the disconnect of a socket that carried no user id, or whose user has
\* no entry, leaves the registry as it was.
C10_UnregisterAbsentIsNoOp ==
    [][\A c \in SocketIds :
          (/\ DisconnectStep(c)
           /\ \/ ~Truthy(sockets[c].userId)
              \/ Get(userSocketMap, ToPropertyKey(sockets[c].userId)) = NoSocket)
             => userSocketMap' = userSocketMap]_vars

\* C11: a newMessage event is emitted only by the run of sendMessage that
\* follows the storing of that message, that run happens once per call, and
\* it emits at most one event: no later step, a connection of the receiver
\* included, pushes a stored message.
C11_NoRetryNoQueue ==
    [][/\ \A i \in DOMAIN emitted' :
             emitted'[i].type = "newMessage"
                => \/ emitted' = emitted
                   \/ \E r \in ReqIds :
                         DispatchStep(r) /\ emitted'[i].message = reqs[r].newMessage
       /\ Cardinality({i \in DOMAIN emitted' : emitted'[i].type = "newMessage"}) <= 1
       /\ \A c \in SocketIds :
             ConnectStep(c) => \A i \in DOMAIN emitted' : emitted'[i].type # "newMessage"
       /\ \A r \in ReqIds : reqs[r].pc = "done" => reqs'[r] = reqs[r]]_vars

\* A message was dispatched before any socket had connected, and its receiver
\* connected afterwards: the latest emit is that connection's broadcast alone.
C11_Witness ==
    \E r \in ReqIds :
        /\ reqs[r].pc = "done" /\ reqs[r].res = "success"
        /\ registryOps = <<[op |-> "register", key |-> reqs[r].receiverId, sid |-> 1]>>
        /\ \A c \in SocketIds : c # 1 => sockets[c].state = "none"
        /\ sockets[1].state = "connected"
        /\ Len(emitted) = 1 /\ emitted[1].type = "getOnlineUsers"

\* The registry operations of: connect u1 on socket 1, connect u2 on socket 2,
\* disconnect socket 1.
ScenarioOps ==
    <<[op |-> "register", key |-> "u1", sid |-> 1],
      [op |-> "register", key |-> "u2", sid |-> 2],
      [op |-> "unregister", key |-> "u1", sid |-> 1]>>

\* Only sockets 1 and 2 were opened, and no socket before the registry was used.
OnlyScenarioSockets ==
    /\ \A c \in SocketIds : c > 2 => sockets[c].state = "none"
    /\ Len(registryOps) < 2 => sockets[2].state = "none"
    /\ Len(registryOps) < 1 => sockets[1].state = "none"

\* C12: from the empty registry, connect u1 on socket 1 broadcasts [u1] to
\* all; connect u2 on socket 2 broadcasts [u1, u2] to all; the disconnect of
\* socket 1 broadcasts [u2]; a dispatch to u1 then emits nothing and a
\* dispatch to u2 emits one newMessage to socket 2.
C12_Scenario ==
    [][OnlyScenarioSockets =>
         /\ (registryOps = <<>> /\ ConnectStep(1) /\ sockets'[1].userId = "u1")
               => emitted' = <<[type |-> "getOnlineUsers", to |-> {1},
                                users |-> <<"u1">>, message |-> NoMessage]>>
         /\ (registryOps = SubSeq(ScenarioOps, 1, 1)
                /\ ConnectStep(2) /\ sockets'[2].userId = "u2")
               => emitted' = <<[type |-> "getOnlineUsers", to |-> {1, 2},
                                users |-> <<"u1", "u2">>, message |-> NoMessage]>>
         /\ (registryOps = SubSeq(ScenarioOps, 1, 2) /\ DisconnectStep(1))
               => emitted' = <<[type |-> "getOnlineUsers", to |-> {2},
                                users |-> <<"u2">>, message |-> NoMessage]>>
         /\ \A r \in ScenarioReqIds :
               (registryOps = ScenarioOps /\ DispatchStep(r))
                  => /\ reqs[r].receiverId = "u1" => emitted' = <<>>
                     /\ reqs[r].receiverId = "u2"
                           => emitted' = <<[type |-> "newMessage", to |-> {2},
                                            users |-> <<>>,
                                            message |-> reqs[r].newMessage]>>]_vars

\* The scenario has run: the message to u1 was answered, and the latest emit
\* is the push of the message to u2 to socket 2.
C12_Witness ==
    /\ OnlyScenarioSockets
    /\ registryOps = ScenarioOps
    /\ onlineUsers = <<"u2">>
    /\ reqs[1].pc = "done" /\ reqs[1].receiverId = "u1" /\ reqs[1].res = "success"
    /\ reqs[2].pc = "done" /\ reqs[2].receiverId = "u2" /\ reqs[2].res = "success"
    /\ reqs[1].newMessage.id = 1 /\ reqs[2].newMessage.id = 2
    /\ emitted = <<EmitNewMessage(2, reqs[2].newMessage)>>

\* C13: no email ever has two accounts, and a signup call that ends without a
\* database error while another call's account holds its email answers
\* "Account already exists", creates no user and issues no token.
C13_OneAccountPerEmail ==
    [][/\ \A i, j \in DOMAIN accounts' :
             accounts'[i].email = accounts'[j].email => i = j
       /\ \A g \in SignupIds :
             (/\ signups[g].pc # "done" /\ signups'[g].pc = "done"
              /\ signups'[g].message # "error"
              /\ signups'[g].message # "Missing Details"
              /\ \E i \in DOMAIN accounts :
                    /\ accounts[i].email = signups[g].email
                    /\ accounts[i] # signups[g].newUser)
                => /\ signups'[g].message = "Account already exists"
                   /\ ~signups'[g].success
                   /\ signups'[g].newUser = NoUser
                   /\ signups'[g].token = 0]_vars

\* The state of a connection in the terms of the specification: pending until
\* it is registered, active while it is open with an identity, closed after.
Phase(s) ==
    IF s.state = "disconnected" THEN "closed"
    ELSE IF s.state = "connected" /\ Truthy(s.userId) THEN "active"
    ELSE "pending"

\* The registry operations this step adds to the history.
NewOps == SubSeq(registryOps', Len(registryOps) + 1, Len(registryOps'))

\* The registry operations made so far on behalf of socket c.
OpsOf(ops, c, op) == {i \in DOMAIN ops : ops[i].sid = c /\ ops[i].op = op}

\* C14: a connection moves pending -> active -> closed, or pending -> closed
\* when it carried no identity; closed is terminal; it registers at most once
\* and only in its connection handler; its disconnect is handled at most once
\* and only after its connect; nothing is written to the registry for it once
\* it is closed.
C14_ConnectionStateMachine ==
    [][\/ UNCHANGED <<sockets, userSocketMap, registryOps>>
       \/ LET new == NewOps
          IN /\ Len(registryOps') >= Len(registryOps)
             /\ SubSeq(registryOps', 1, Len(registryOps)) = registryOps
             /\ \A c \in SocketIds :
                   LET before == Phase(sockets[c])
                       after == Phase(sockets'[c])
                   IN \/ sockets'[c] = sockets[c]
                      \/ /\ before # after =>
                               \/ before = "pending" /\ after = "active" /\ ConnectStep(c)
                               \/ before = "active" /\ after = "closed" /\ DisconnectStep(c)
                               \/ /\ before = "pending" /\ after = "closed"
                                  /\ DisconnectStep(c) /\ ~Truthy(sockets[c].userId)
                         /\ sockets[c].state # "disconnected"
                         /\ sockets[c].state # "none" => sockets'[c].userId = sockets[c].userId
                         /\ ConnectStep(c) \/ DisconnectStep(c)
             /\ \A i \in DOMAIN new :
                   LET c == new[i].sid
                   IN /\ c \in SocketIds
                      /\ \A j \in DOMAIN new : new[j].sid = c => j = i
                      /\ new[i].op = "register" =>
                            /\ ConnectStep(c)
                            /\ \A j \in DOMAIN registryOps : registryOps[j].sid # c
                      /\ new[i].op = "unregister" =>
                            /\ DisconnectStep(c)
                            /\ \A j \in DOMAIN registryOps :
                                  registryOps[j].sid = c => registryOps[j].op = "register"
             /\ \A i \in DOMAIN userSocketMap' :
                   LET c == userSocketMap'[i].value
                       k == userSocketMap'[i].key
                   IN Get(userSocketMap, k) # c
                        => /\ c \in SocketIds
                           /\ ConnectStep(c)
                           /\ k = ToPropertyKey(sockets'[c].userId)]_vars

\* A connection with an identity and one without have both run their whole course.
C14_Witness ==
    \E c, d \in SocketIds :
        /\ Phase(sockets[c]) = "closed" /\ Truthy(sockets[c].userId)
        /\ Phase(sockets[d]) = "closed" /\ ~Truthy(sockets[d].userId)
        /\ OpsOf(registryOps, c, "register") # {}
        /\ OpsOf(registryOps, d, "register") = {}
        /\ OpsOf(registryOps, d, "unregister") # {}

\* C15: every socket id stored in the registry is the id of a socket that is
\* still connected.
C15_NoDanglingEntry ==
    \A i \in DOMAIN userSocketMap :
        /\ userSocketMap[i].value \in SocketIds
        /\ sockets[userSocketMap[i].value].state = "connected"

\* Two sockets of one user: the first has left, the entry names the second.
C15_Witness ==
    \E c, d \in SocketIds :
        /\ c # d
        /\ sockets[c].userId = sockets[d].userId /\ Truthy(sockets[c].userId)
        /\ sockets[c].state = "disconnected" /\ sockets[d].state = "connected"
        /\ Get(userSocketMap, ToPropertyKey(sockets[d].userId)) = d

\* C16: when every socket that joined has left, the registry is empty and
\* the latest getOnlineUsers broadcast carried the empty list.
C16_AllClosedAllOffline ==
    (/\ \A c \in SocketIds : sockets[c].state # "connected"
     /\ \E c \in SocketIds : sockets[c].state = "disconnected")
        => /\ userSocketMap = <<>>
           /\ onlineUsers = <<>>
           /\ registryOps[Len(registryOps)].op = "unregister"

\* Every socket joined with an identity and left; the users were shown online.
C16_Witness ==
    /\ \A c \in SocketIds : sockets[c].state = "disconnected" /\ Truthy(sockets[c].userId)
    /\ userSocketMap = <<>>
    /\ onlineUsers = <<>>

\* C17: the run of sendMessage that follows Message.create reads the registry
\* and pushes in one step, in which no handler changes the registry; the push
\* goes to the entry the receiver has at that moment, which is the socket of
\* the latest connect no disconnect followed, and to nobody when there is none.
C17_LookupAndPushAtomic ==
    [][\A r \in ReqIds :
          DispatchStep(r) =>
            LET k == ToPropertyKey(reqs[r].receiverId)
                target == Get(userSocketMap, k)
            IN /\ Persisted(r)
               /\ UNCHANGED <<sockets, userSocketMap, registryOps, onlineUsers>>
               /\ target = LatestRegistered(registryOps, k, Len(registryOps))
               /\ IF target # NoSocket
                  THEN /\ emitted' = <<EmitNewMessage(target, reqs[r].newMessage)>>
                       /\ sockets[target].state = "connected"
                       /\ sockets[target].userId = reqs[r].receiverId
                  ELSE emitted' = <<>>]_vars

\* While the call awaited, the receiver connected, left, and connected again
\* on another socket: the push went to that socket alone.
C17_Witness ==
    \E r \in ReqIds, c, d \in SocketIds :
        /\ reqs[r].pc = "done" /\ reqs[r].res = "success" /\ reqs[r].image
        /\ c # d
        /\ registryOps = <<[op |-> "register", key |-> reqs[r].receiverId, sid |-> c],
                           [op |-> "unregister", key |-> reqs[r].receiverId, sid |-> c],
                           [op |-> "register", key |-> reqs[r].receiverId, sid |-> d]>>
        /\ emitted = <<EmitNewMessage(d, reqs[r].newMessage)>>

\* C18: every message a getMessages call marks as seen is in the list the
\* call returns.
C18_SeenOnlyIfReturned ==
    [][\A g \in GetIds :
          reads[g].pc = "updateMany" /\ reads'[g].pc = "updated" =>
            \A i \in DOMAIN messages :
                ~messages[i].seen /\ messages'[i].seen =>
                    \E j \in DOMAIN reads'[g].found :
                        reads'[g].found[j].id = messages[i].id]_vars
====
